---- MODULE Spec2Model ----
(***************************************************************************)
(* The controller session layer of gomaasapi (controller.go): version      *)
(* negotiation in NewController, the request primitives and their request  *)
(* sequence counter, and the per-call-site translation of transport        *)
(* failures into the error taxonomy.                                       *)
(*                                                                         *)
(* Go strings that the code takes apart (version strings, the API key,     *)
(* file names) are sequences of one-character strings; opaque tokens       *)
(* (capabilities, paths) are plain strings.                                *)
(***************************************************************************)
EXTENDS Integers, Sequences, FiniteSets, TLC

\* ------------------------------------------------------------------------
\* Bounds
\* ------------------------------------------------------------------------
\* Longest list of supported versions that negotiation walks.
MaxCandidates == 2
\* The request counter is an int64; the model stops issuing at this value
\* (see RequestCap).
MaxRequestNumber == 4
\* Number of threads that invoke request primitives concurrently.
NumThreads == 2
\* Number of Sessions the program creates with NewController.
MaxSessions == 2

Threads == 1..NumThreads

\* ------------------------------------------------------------------------
\* HTTP status codes (net/http)
\* ------------------------------------------------------------------------
StatusBadRequest == 400
StatusUnauthorized == 401
StatusForbidden == 403
StatusNotFound == 404
StatusConflict == 409

\* The statuses a simulated transport answers with: the five the code
\* names and one (500) that no call site maps.
Statuses == {StatusBadRequest, StatusUnauthorized, StatusForbidden,
             StatusNotFound, StatusConflict, 500}

\* ------------------------------------------------------------------------
\* Strings as character sequences
\* ------------------------------------------------------------------------
Digits == {"0", "1", "2", "3", "4", "5", "6", "7", "8", "9"}

DigitVal(c) ==
    CASE c = "0" -> 0 [] c = "1" -> 1 [] c = "2" -> 2 [] c = "3" -> 3
      [] c = "4" -> 4 [] c = "5" -> 5 [] c = "6" -> 6 [] c = "7" -> 7
      [] c = "8" -> 8 [] c = "9" -> 9

\* strings.Split(s, sep) for a one-character separator.
RECURSIVE Split(_, _)
Split(s, sep) ==
    IF \A k \in 1..Len(s) : s[k] # sep
    THEN <<s>>
    ELSE LET k == CHOOSE j \in 1..Len(s) :
                      s[j] = sep /\ \A m \in 1..(j - 1) : s[m] # sep
         IN  <<SubSeq(s, 1, k - 1)>> \o Split(SubSeq(s, k + 1, Len(s)), sep)

\* The value of a digit string, for values the checker's integers hold.
RECURSIVE AtoiAcc(_, _)
AtoiAcc(p, acc) ==
    IF p = <<>> THEN acc ELSE AtoiAcc(Tail(p), acc * 10 + DigitVal(Head(p)))

\* The digits of the largest int (64 bits): 9223372036854775807.  The
\* smallest one ends in 8.
MaxIntDigits ==
    <<"9", "2", "2", "3", "3", "7", "2", "0", "3", "6", "8", "5", "4", "7",
      "7", "5", "8", "0", "7">>

RECURSIVE StripZeros(_)
StripZeros(d) ==
    IF Len(d) > 1 /\ Head(d) = "0" THEN StripZeros(Tail(d)) ELSE d

\* a > b for digit strings of the same length.
RECURSIVE DigitsGreater(_, _)
DigitsGreater(a, b) ==
    IF a = <<>> THEN FALSE
    ELSE IF DigitVal(Head(a)) # DigitVal(Head(b))
         THEN DigitVal(Head(a)) > DigitVal(Head(b))
         ELSE DigitsGreater(Tail(a), Tail(b))

\* The value of the digits, negated or not, does not fit an int.
OutOfRange(d, neg) ==
    LET m == StripZeros(d)
        limit == IF neg THEN [MaxIntDigits EXCEPT ![19] = "8"]
                 ELSE MaxIntDigits
    IN  \/ Len(m) > Len(limit)
        \/ Len(m) = Len(limit) /\ DigitsGreater(m, limit)

\* strconv.Atoi: an optional sign, then decimal digits, within the range
\* of int.
Atoi(p) ==
    LET signed == p # <<>> /\ p[1] \in {"+", "-"}
        neg == p # <<>> /\ p[1] = "-"
        d == IF signed THEN Tail(p) ELSE p
    IN  IF d = <<>> \/ \E k \in 1..Len(d) : d[k] \notin Digits
        THEN [ok |-> FALSE, n |-> 0]
        ELSE IF OutOfRange(d, neg)
        THEN [ok |-> FALSE, n |-> 0]
        ELSE [ok |-> TRUE,
              n |-> IF neg THEN 0 - AtoiAcc(d, 0) ELSE AtoiAcc(d, 0)]

\* version.ParseMajorMinor as NewController calls it.
ParseMajorMinor(vers) ==
    LET parts == Split(vers, ".")
        major == Atoi(parts[1])
    IN  IF ~major.ok
        THEN [ok |-> FALSE, major |-> -1, minor |-> -1]
        ELSE IF Len(parts) = 2
             THEN LET minor == Atoi(parts[2])
                  IN  IF ~minor.ok
                      THEN [ok |-> FALSE, major |-> -1, minor |-> -1]
                      ELSE [ok |-> TRUE, major |-> major.n, minor |-> minor.n]
             ELSE IF Len(parts) > 2
                  THEN [ok |-> FALSE, major |-> -1, minor |-> -1]
                  ELSE [ok |-> TRUE, major |-> major.n, minor |-> -1]

\* version.Number{Major, Minor}
VersionNumber(major, minor) == [Major |-> major, Minor |-> minor]

V20 == <<"2", ".", "0">>
V10 == <<"1", ".", "0">>
VBad == <<"2", ".", "x">>
VSigned == <<"-", "1", ".", "+", "0">>

\* The version strings a supported-version list is built from.
VersionStrings == {V20, V10, VBad, VSigned}

RECURSIVE SeqsUpTo(_, _)
SeqsUpTo(S, n) ==
    IF n = 0 THEN {<<>>}
    ELSE LET shorter == SeqsUpTo(S, n - 1)
         IN  shorter \cup {Append(s, x) : s \in shorter, x \in S}

\* ------------------------------------------------------------------------
\* Errors: the Kind is the type of errors.Cause(err); cause and status keep
\* what the error wraps (errors.Wrap's previous error).
\* ------------------------------------------------------------------------
NoErr == [kind |-> "nil", status |-> 0, cause |-> "none"]

\* ServerError of the transport: a non-2xx response.
ServerError(status) == [kind |-> "ServerError", status |-> status, cause |-> "none"]

\* A transport failure that is not a ServerError (connection refused, ...).
TransportFailure == [kind |-> "TransportFailure", status |-> 0, cause |-> "none"]

\* *json.SyntaxError out of json.Unmarshal.
JSONSyntaxError == [kind |-> "JSONSyntax", status |-> 0, cause |-> "none"]

\* The error of a schema checker's Coerce.
SchemaError == [kind |-> "Schema", status |-> 0, cause |-> "none"]

\* errors.NotValidf / errors.NewNotValid
NotValidError == [kind |-> "NotValid", status |-> 0, cause |-> "none"]

\* url.Parse failing inside the client constructor.
URLParseError == [kind |-> "URLParse", status |-> 0, cause |-> "none"]

\* errors.Errorf: a plain error.
PlainError == [kind |-> "Plain", status |-> 0, cause |-> "none"]

\* io error out of ioutil.ReadAll.
ReadError == [kind |-> "Read", status |-> 0, cause |-> "none"]

\* errors.Wrap(err, newErr): Cause becomes newErr, err is kept underneath.
Wrap(err, kind) == [kind |-> kind, status |-> err.status, cause |-> err.kind]

\* errors.Trace / errors.Annotatef: same Cause, location added.
Trace(err) == err

IsNotValid(err) == err.kind = "NotValid"

\* errors.Cause(err).(ServerError)
IsServerError(err) == err.kind = "ServerError"

NewUnexpectedError(err) == Wrap(err, "Unexpected")

NewUnsupportedVersionError ==
    [kind |-> "UnsupportedVersion", status |-> 0, cause |-> "none"]

NewBadRequestError == [kind |-> "BadRequest", status |-> 0, cause |-> "none"]

WrapWithDeserializationError(err) == Wrap(err, "Deserialization")

\* ------------------------------------------------------------------------
\* JSON values (the interface{} tree json.Unmarshal builds) and bodies.  A
\* number is kept as its literal text.
\* ------------------------------------------------------------------------
JString(s) == [t |-> "string", v |-> s]
JNumber(n) == [t |-> "number", v |-> n]
JArray(a) == [t |-> "array", v |-> a]
JObject(fields) == [t |-> "object", v |-> fields]
JNull == [t |-> "null", v |-> "null"]
Field(k, val) == [k |-> k, val |-> val]

\* A response body: well-formed JSON text carrying doc, or not JSON at all.
JSONBody(doc) == [json |-> TRUE, doc |-> doc]
NotJSONBody == [json |-> FALSE, doc |-> JNull]

\* json.Unmarshal(bytes, &parsed)
Unmarshal(bytes) ==
    IF bytes.json
    THEN [err |-> NoErr, val |-> bytes.doc]
    ELSE [err |-> JSONSyntaxError, val |-> JNull]

HasField(obj, k) == \E j \in 1..Len(obj.v) : obj.v[j].k = k

\* map lookup: json.Unmarshal keeps the last occurrence of a repeated key.
GetField(obj, k) ==
    LET j == CHOOSE m \in 1..Len(obj.v) :
                 obj.v[m].k = k /\ \A n \in (m + 1)..Len(obj.v) : obj.v[n].k # k
    IN  obj.v[j].val

\* schema.String().Coerce
CoerceString(v) == v.t = "string"

\* CoerceListOfString with the elements left unchecked.
CoerceListOfAny(v) == v.t = "array"

\* schema.List(schema.String()).Coerce
CoerceListOfString(v) ==
    v.t = "array" /\ \A j \in 1..Len(v.v) : CoerceString(v.v[j])

\* schema.FieldMap({"capabilities": List(String())}, nil).Coerce: TRUE when
\* the value coerces.  Without defaults an absent field is coerced from nil
\* and fails.
CoerceVersionDoc(v) ==
    /\ v.t = "object"
    /\ HasField(v, "capabilities")
    /\ CoerceListOfString(GetField(v, "capabilities"))

\* AddAll with the loop cut short after the first element.
AddAllFirstOnly(set, values) ==
    IF values = <<>> THEN set ELSE set \cup {Head(values).v}

\* set.NewStrings() followed by Add of each list element in order.
RECURSIVE AddAll(_, _)
AddAll(set, values) ==
    IF values = <<>> THEN set
    ELSE AddAll(set \cup {Head(values).v}, Tail(values))

\* ------------------------------------------------------------------------
\* The transport (Client) as seen by the controller
\* ------------------------------------------------------------------------
\* What client.Get / Post / Delete hands back: (bytes, error).  With an
\* error the bytes are nil.
Response(err, body) == [err |-> err, body |-> body]
NoResponse == Response(NoErr, NotJSONBody)

\* Version documents a server may answer GET version/ with.
CapsDoc(list) == JObject(<<Field("capabilities", JArray(list))>>)

VersionDocs ==
    { CapsDoc(<<>>),
      CapsDoc(<<JString("a")>>),
      CapsDoc(<<JString("a"), JString("b")>>),
      CapsDoc(<<JString("b"), JString("a"), JString("b")>>),
      JObject(<<Field("version", JString("2.0")),
                Field("capabilities", JArray(<<JString("a")>>))>>),
      JObject(<<Field("version", JString("2.0"))>>),
      CapsDoc(<<JString("a"), JNumber("1")>>),
      JObject(<<Field("capabilities", JString("a"))>>),
      JArray(<<JString("a")>>) }

FailureResponses ==
    {Response(ServerError(s), NotJSONBody) : s \in Statuses}
        \cup {Response(TransportFailure, NotJSONBody)}

VersionResponses ==
    {Response(NoErr, JSONBody(d)) : d \in VersionDocs}
        \cup {Response(NoErr, NotJSONBody)}
        \cup FailureResponses

\* Answers to every other call: some JSON document, a body that is not
\* JSON, or a failure.
PlainResponses ==
    {Response(NoErr, JSONBody(JObject(<<>>))), Response(NoErr, NotJSONBody)}
        \cup FailureResponses

\* ControllerArgs: the API key is "<consumer>:<token>:<secret>".
GoodKey == <<"a", ":", "b", ":", "c">>
BadKey == <<"a", ":", "b">>
GoodURL == "http://example.com/MAAS"
BadURL == "://example.com"

ControllerArgs == [BaseURL : {GoodURL, BadURL}, APIKey : {GoodKey, BadKey}]

\* url.Parse on the two base URLs of the model.
URLParses(u) == u = GoodURL

\* NewAuthenticatedClient(BaseURL, APIKey, apiVersion): the error it
\* returns (NoErr when a client is built).
NewAuthenticatedClient(a, apiVersion) ==
    IF Len(Split(a.APIKey, ":")) # 3 THEN NotValidError
    ELSE IF ~URLParses(a.BaseURL) THEN URLParseError
    ELSE NoErr

\* ------------------------------------------------------------------------
\* Request primitives, as functions of the transport's answer
\* ------------------------------------------------------------------------
\* AddInt64 replaced by a load: the counter is read and never advanced.
LoadInt64(n, delta) == n

\* atomic.AddInt64(&requestNumber, delta): the new value.
AddInt64(n, delta) == n + delta

\* nextRequestID
nextRequestID(n) == AddInt64(n, 1)

\* RawNext with a failed transport call issued again.
RawNextRetry(resp) == IF resp.err # NoErr THEN "retry" ELSE "return"

\* What a raw primitive does once the transport has answered: both
\* branches return to the caller.
RawNext(resp) == "return"

_getRaw(resp) ==
    IF resp.err # NoErr
    THEN [err |-> Trace(resp.err), bytes |-> NotJSONBody]
    ELSE [err |-> NoErr, bytes |-> resp.body]

\* get, getQuery and getOp all go through _get.
_get(resp) ==
    LET raw == _getRaw(resp)
    IN  IF raw.err # NoErr
        THEN [err |-> Trace(raw.err), val |-> JNull]
        ELSE LET parsed == Unmarshal(raw.bytes)
             IN  IF parsed.err # NoErr
                 THEN [err |-> Trace(parsed.err), val |-> JNull]
                 ELSE [err |-> NoErr, val |-> parsed.val]

_postRaw(resp) ==
    IF resp.err # NoErr
    THEN [err |-> Trace(resp.err), bytes |-> NotJSONBody]
    ELSE [err |-> NoErr, bytes |-> resp.body]

\* post handing back what _postRaw returns, the body undecoded.
postUndecoded(resp) ==
    LET raw == _postRaw(resp)
    IN  [err |-> raw.err, val |-> [t |-> "bytes", v |-> raw.bytes]]

post(resp) ==
    LET raw == _postRaw(resp)
    IN  IF raw.err # NoErr
        THEN [err |-> Trace(raw.err), val |-> JNull]
        ELSE LET parsed == Unmarshal(raw.bytes)
             IN  IF parsed.err # NoErr
                 THEN [err |-> Trace(parsed.err), val |-> JNull]
                 ELSE [err |-> NoErr, val |-> parsed.val]

\* postFile returns what _postRaw returns: the bytes, undecoded.
postFile(resp) ==
    LET raw == _postRaw(resp)
    IN  [err |-> raw.err, val |-> [t |-> "bytes", v |-> raw.bytes]]

delete(resp) ==
    IF resp.err # NoErr
    THEN [err |-> Trace(resp.err), val |-> JNull]
    ELSE [err |-> NoErr, val |-> JNull]

\* ------------------------------------------------------------------------
\* Negotiation helpers
\* ------------------------------------------------------------------------
\* capabilitiesNil tells the nil set.Strings of the failure returns from
\* the set built by set.NewStrings().
readAPIVersion(apiVersion, resp) ==
    LET parsed == _get(resp)
    IN  IF parsed.err # NoErr
        THEN [capabilities |-> {}, capabilitiesNil |-> TRUE,
              apiVersion |-> apiVersion,
              err |-> Trace(parsed.err)]
        ELSE IF ~CoerceVersionDoc(parsed.val)
             THEN [capabilities |-> {}, capabilitiesNil |-> TRUE,
                   apiVersion |-> apiVersion,
                   err |-> WrapWithDeserializationError(SchemaError)]
             ELSE [capabilities |->
                       AddAll({}, GetField(parsed.val, "capabilities").v),
                   capabilitiesNil |-> FALSE,
                   apiVersion |-> apiVersion,
                   err |-> NoErr]

\* checkCreds looking only at the transport's error, the body undecoded.
checkCredsRaw(resp) ==
    LET r == _getRaw(resp)
    IN  IF r.err # NoErr
        THEN IF r.err.kind = "ServerError" /\ r.err.status = StatusUnauthorized
             THEN Wrap(r.err, "Permission")
             ELSE Wrap(r.err, "Unexpected")
        ELSE NoErr

checkCreds(resp) ==
    LET r == _get(resp)
    IN  IF r.err # NoErr
        THEN IF IsServerError(r.err) /\ r.err.status = StatusUnauthorized
             THEN Wrap(r.err, "Permission")
             ELSE NewUnexpectedError(r.err)
        ELSE NoErr

\* AfterNewClient with only the invalid key a hard stop: any other
\* construction error moves on to the next candidate.
AfterNewClientSoft(err) ==
    IF err # NoErr
    THEN IF err.kind = "NotValid"
         THEN [go |-> "return", err |-> err]
         ELSE [go |-> "continue", err |-> NoErr]
    ELSE [go |-> "readAPIVersion", err |-> NoErr]

\* NewController, lines 60-69: what the loop does after building the client.
AfterNewClient(err) ==
    IF err # NoErr
    THEN IF IsNotValid(err)
         THEN [go |-> "return", err |-> Trace(err)]
         ELSE [go |-> "return", err |-> NewUnexpectedError(err)]
    ELSE [go |-> "readAPIVersion", err |-> NoErr]

\* AfterReadAPIVersion with a failed version read returned to the caller.
AfterReadAPIVersionHard(err) ==
    IF err # NoErr
    THEN [go |-> "return", err |-> err]
    ELSE [go |-> "checkCreds", err |-> NoErr]

\* AfterReadAPIVersion giving up on the first failed version read.
AfterReadAPIVersionGivesUp(err) ==
    IF err # NoErr
    THEN [go |-> "return", err |-> NewUnsupportedVersionError]
    ELSE [go |-> "checkCreds", err |-> NoErr]

\* AfterReadAPIVersion with a version read refused with 401 or 403 taken
\* for a credential failure.
AfterReadAPIVersionChecksStatus(err) ==
    IF err # NoErr
    THEN IF err.kind = "ServerError"
              /\ err.status \in {StatusUnauthorized, StatusForbidden}
         THEN [go |-> "return", err |-> Wrap(err, "Permission")]
         ELSE [go |-> "continue", err |-> NoErr]
    ELSE [go |-> "checkCreds", err |-> NoErr]

\* AfterReadAPIVersion without the continue: the identity check follows a
\* failed version read too.
AfterReadAPIVersionFallsThrough(err) == [go |-> "checkCreds", err |-> NoErr]

\* NewController, lines 76-80: a failed version read moves to the next
\* candidate.
AfterReadAPIVersion(err) ==
    IF err # NoErr
    THEN [go |-> "continue", err |-> NoErr]
    ELSE [go |-> "checkCreds", err |-> NoErr]

\* AfterCheckCreds with a failed identity check treated like a failed
\* version read.
AfterCheckCredsContinues(err) ==
    IF err # NoErr
    THEN [go |-> "continue", err |-> NoErr]
    ELSE [go |-> "return", err |-> NoErr]

\* NewController, lines 82-85.
AfterCheckCreds(err) ==
    IF err # NoErr
    THEN [go |-> "return", err |-> Trace(err)]
    ELSE [go |-> "return", err |-> NoErr]

\* ------------------------------------------------------------------------
\* Session operations
\* ------------------------------------------------------------------------
ListOps == {"BootResources", "Fabrics", "Spaces", "Zones", "Devices",
            "Machines", "Files"}

\* The methods of Controller, and delete, which the resource objects that
\* carry the controller invoke on it.
Ops == ListOps \cup {"Capabilities", "CreateDevice", "AllocateMachine",
                     "ReleaseMachines", "GetFile", "AddFile", "delete"}

\* Arguments of a call; an operation reads only its own fields.  content is
\* a []byte: nil, an empty slice that is not nil, or some bytes.
NoArgs == [macs |-> 0, filename |-> <<>>, content |-> "nil",
           reader |-> "nil", length |-> 0]

Filenames == {<<>>, <<"f">>, <<"d", "/", "f">>, <<"f", "/">>}

ArgsOf(op) ==
    CASE op = "CreateDevice" ->
            {[NoArgs EXCEPT !.macs = n] : n \in 0..1}
      [] op = "GetFile" ->
            {[NoArgs EXCEPT !.filename = f] : f \in {<<>>, <<"f">>}}
      [] op = "AddFile" ->
            [macs : {0}, filename : Filenames,
             content : {"nil", "empty", "bytes"},
             reader : {"nil", "reads", "fails"}, length : {-1, 0, 1}]
      [] OTHER -> {NoArgs}

\* path.Split(filename): the directory part, up to the final slash.
PathDir(f) ==
    IF \A k \in 1..Len(f) : f[k] # "/"
    THEN <<>>
    ELSE LET k == CHOOSE j \in 1..Len(f) :
                      f[j] = "/" /\ \A m \in (j + 1)..Len(f) : f[m] # "/"
         IN  SubSeq(f, 1, k)

\* Validate without the check that a Reader comes with a Length.
ValidateNoLength(a) ==
    IF PathDir(a.filename) # <<>> THEN NotValidError
    ELSE IF a.filename = <<>> THEN NotValidError
    ELSE IF a.content = "nil"
         THEN IF a.reader = "nil" THEN NotValidError ELSE NoErr
         ELSE IF a.reader # "nil" THEN NotValidError
              ELSE IF a.length # 0 THEN NotValidError
              ELSE NoErr

\* AddFileArgs.Validate
Validate(a) ==
    IF PathDir(a.filename) # <<>> THEN NotValidError
    ELSE IF a.filename = <<>> THEN NotValidError
    ELSE IF a.content = "nil"
         THEN IF a.reader = "nil" THEN NotValidError
              ELSE IF a.length = 0 THEN NotValidError
              ELSE NoErr
         ELSE IF a.reader # "nil" THEN NotValidError
              ELSE IF a.length # 0 THEN NotValidError
              ELSE NoErr

\* ioutil.ReadAll(io.LimitReader(reader, length)): a limit of zero or less
\* ends the read before the reader is asked for anything.
ReadAllFails(reader, length) == length > 0 /\ reader = "fails"

\* AddFile reads its content from the Reader before it posts.
ReadsContent(op, a) == op = "AddFile" /\ a.content = "nil"

\* What an operation decides on entry from its arguments alone: the error
\* it returns at once, or NoErr.
LocalCheck(op, a) ==
    CASE op = "CreateDevice" ->
            IF a.macs = 0 THEN NewBadRequestError ELSE NoErr
      [] op = "GetFile" ->
            IF a.filename = <<>> THEN NotValidError ELSE NoErr
      [] op = "AddFile" ->
            IF Validate(a) # NoErr THEN Trace(Validate(a)) ELSE NoErr
      [] OTHER -> NoErr

\* The primitive an operation is built on.
PrimOf(op) ==
    CASE op \in {"BootResources", "Fabrics", "Spaces", "Zones", "GetFile"} -> "get"
      [] op \in {"Devices", "Machines", "Files"} -> "getQuery"
      [] op \in {"CreateDevice", "AllocateMachine", "ReleaseMachines"} -> "post"
      [] op = "AddFile" -> "postFile"
      [] op = "delete" -> "delete"

PrimResult(prim, resp) ==
    CASE prim \in {"get", "getQuery", "getOp"} -> _get(resp)
      [] prim = "post" -> post(resp)
      [] prim = "postFile" -> postFile(resp)
      [] prim = "delete" -> delete(resp)

\* ListErr handing the primitive's error back as it came.
ListErrRaw(err) == err

\* BootResources, Fabrics, Spaces, Zones, Devices, Machines, Files.
ListErr(err) == NewUnexpectedError(err)

CreateDeviceErr(err) ==
    IF IsServerError(err) /\ err.status = StatusBadRequest
    THEN Wrap(err, "BadRequest")
    ELSE NewUnexpectedError(err)

AllocateMachineErr(err) ==
    IF IsServerError(err) /\ err.status = StatusConflict
    THEN Wrap(err, "NoMatch")
    ELSE NewUnexpectedError(err)

\* ReleaseMachinesErr with AllocateMachine's reading of 409.
ReleaseMachinesErrAsAllocate(err) ==
    IF err.kind = "ServerError" /\ err.status = StatusBadRequest
    THEN Wrap(err, "BadRequest")
    ELSE IF err.kind = "ServerError" /\ err.status = StatusForbidden
    THEN Wrap(err, "Permission")
    ELSE IF err.kind = "ServerError" /\ err.status = StatusConflict
    THEN Wrap(err, "NoMatch")
    ELSE Wrap(err, "Unexpected")

ReleaseMachinesErr(err) ==
    IF IsServerError(err) /\ err.status = StatusBadRequest
    THEN Wrap(err, "BadRequest")
    ELSE IF IsServerError(err) /\ err.status = StatusForbidden
    THEN Wrap(err, "Permission")
    ELSE IF IsServerError(err) /\ err.status = StatusConflict
    THEN Wrap(err, "CannotComplete")
    ELSE NewUnexpectedError(err)

GetFileErr(err) ==
    IF IsServerError(err) /\ err.status = StatusNotFound
    THEN Wrap(err, "NoMatch")
    ELSE NewUnexpectedError(err)

AddFileErr(err) ==
    IF IsServerError(err) /\ err.status = StatusBadRequest
    THEN Wrap(err, "BadRequest")
    ELSE NewUnexpectedError(err)

\* The error an operation returns for a failed primitive.
TranslateErr(op, err) ==
    CASE op \in ListOps -> ListErr(err)
      [] op = "CreateDevice" -> CreateDeviceErr(err)
      [] op = "AllocateMachine" -> AllocateMachineErr(err)
      [] op = "ReleaseMachines" -> ReleaseMachinesErr(err)
      [] op = "GetFile" -> GetFileErr(err)
      [] op = "AddFile" -> AddFileErr(err)
      [] op = "delete" -> err

\* Operations that hand the decoded value to a resource decoder
\* (readFabrics, readDevice, ...); the others drop it.
DecodingOps == ListOps \cup {"CreateDevice", "AllocateMachine", "GetFile"}

\* The error an operation returns once the transport has answered;
\* decodes tells whether the resource decoder accepts the value.
OpErr(op, resp, decodes) ==
    LET r == PrimResult(PrimOf(op), resp)
    IN  IF r.err # NoErr THEN TranslateErr(op, r.err)
        ELSE IF op \in DecodingOps /\ ~decodes
             THEN Trace(WrapWithDeserializationError(SchemaError))
             ELSE NoErr

\* Receiver with AddFile resetting the capability set.
ReceiverReset(c, op) ==
    IF op = "AddFile" THEN [c EXCEPT !.capabilities = {}] ELSE c

\* A method's effect on its receiver: no method assigns a field of c.
Receiver(c, op) == c

\* Capabilities()
Capabilities(c) == c.capabilities

\* ------------------------------------------------------------------------
\* State
\* ------------------------------------------------------------------------
VARIABLES
    supportedAPIVersions,  \* the package's ordered candidate list
    args,                  \* the ControllerArgs given to NewController
    requestNumber,         \* the package's request counter
    issued,                \* the numbers nextRequestID returned, in order
    nc,                    \* NewController's position and locals
    ncLog,                 \* clients built and transport calls made by it
    ncResult,              \* what NewController returned
    session,               \* the controller object behind the Session
    caller,                \* a caller of Session operations and its last call
    thr,                   \* threads invoking request primitives
    created                \* how many Sessions NewController has returned

vars == <<supportedAPIVersions, args, requestNumber, issued, nc, ncLog,
          ncResult, session, caller, thr, created>>

\* controller{}: client is the candidate the client was built for, 0 for
\* the nil controller.
NilController ==
    [client |-> 0, apiVersion |-> VersionNumber(0, 0), capabilities |-> {}]

NCLocals(pc, i, id, controllerVersion, c) ==
    [pc |-> pc, i |-> i, id |-> id, controllerVersion |-> controllerVersion,
     controller |-> c]

\* ret is what the operation's primitive returned to it.
IdleCaller ==
    [pc |-> "idle", op |-> "none", args |-> NoArgs, id |-> 0, calls |-> 0,
     resp |-> NoResponse, ret |-> [err |-> NoErr, val |-> JNull],
     err |-> NoErr, caps |-> {}]

IdleThread ==
    [pc |-> "idle", prim |-> "none", on |-> 0, id |-> 0, calls |-> 0,
     failed |-> FALSE]

\* What a step of NewController got back from the function it called: the
\* error, and for readAPIVersion the capability set.
Returned(err, capabilities, capabilitiesNil) ==
    [err |-> err, capabilities |-> capabilities,
     capabilitiesNil |-> capabilitiesNil]

LogEntry(cand, call, id, resp, ret) ==
    [cand |-> cand, call |-> call, id |-> id, resp |-> resp, ret |-> ret]

HasSession == nc.pc = "done" /\ ncResult.controller # NilController

\* Where the model stops issuing request numbers: MaxRequestNumber, and two
\* more for every Session after the first, the two its negotiation draws.
RequestCap ==
    MaxRequestNumber + 2 * (IF created > 1 THEN created - 1 ELSE 0)

\* The state NewController starts from.
Init ==
    /\ supportedAPIVersions \in SeqsUpTo(VersionStrings, MaxCandidates) \ {<<>>}
    /\ args \in ControllerArgs
    /\ requestNumber = 0
    /\ issued = <<>>
    /\ nc = NCLocals("loop", 1, 0, VersionNumber(0, 0), NilController)
    /\ ncLog = <<>>
    /\ ncResult = [controller |-> NilController, err |-> NoErr]
    /\ session = NilController
    /\ caller = IdleCaller
    /\ thr = [t \in Threads |-> IdleThread]
    /\ created = 0

\* ------------------------------------------------------------------------
\* NewController
\* ------------------------------------------------------------------------
NCReturn(c, err) ==
    /\ nc' = NCLocals("done", nc.i, 0, VersionNumber(0, 0), NilController)
    /\ ncResult' = [controller |-> c, err |-> err]
    /\ session' = c
    /\ created' = IF c # NilController THEN created + 1 ELSE created

NCContinue ==
    /\ nc' = NCLocals("loop", nc.i + 1, 0, VersionNumber(0, 0), NilController)
    /\ UNCHANGED <<ncResult, session, created>>

\* One pass of the loop body up to the request for the version document:
\* parse the candidate, build its client, draw the request number.
NCTryCandidate ==
    /\ nc.pc = "loop"
    /\ nc.i <= Len(supportedAPIVersions)
    /\ LET apiVersion == supportedAPIVersions[nc.i]
           parsed == ParseMajorMinor(apiVersion)
           cerr == NewAuthenticatedClient(args, apiVersion)
           step == AfterNewClient(cerr)
       IN  IF ~parsed.ok
           THEN /\ NCReturn(NilController, PlainError)
                /\ UNCHANGED <<requestNumber, issued, ncLog>>
           ELSE /\ ncLog' = Append(ncLog,
                        LogEntry(nc.i, "NewAuthenticatedClient", 0,
                                 Response(cerr, NotJSONBody),
                                 Returned(cerr, {}, TRUE)))
                /\ CASE step.go = "return" ->
                          /\ NCReturn(NilController, step.err)
                          /\ UNCHANGED <<requestNumber, issued>>
                     [] step.go = "continue" ->
                          /\ NCContinue
                          /\ UNCHANGED <<requestNumber, issued>>
                     [] step.go = "readAPIVersion" ->
                          /\ requestNumber < RequestCap
                          /\ requestNumber' = nextRequestID(requestNumber)
                          /\ issued' = Append(issued, requestNumber')
                          /\ nc' = NCLocals("version", nc.i, requestNumber',
                                    VersionNumber(parsed.major, parsed.minor),
                                    [NilController EXCEPT !.client = nc.i])
                          /\ UNCHANGED <<ncResult, session, created>>
    /\ UNCHANGED <<supportedAPIVersions, args, caller, thr>>

\* The transport answers GET version/: readAPIVersion finishes, and on
\* success checkCreds draws the request number for GET users/?op=whoami.
NCVersionResponse(resp) ==
    /\ nc.pc = "version"
    /\ LET r == readAPIVersion(nc.controllerVersion, resp)
       IN  ncLog' = Append(ncLog,
               LogEntry(nc.i, "version", nc.id, resp,
                        Returned(r.err, r.capabilities, r.capabilitiesNil)))
    /\ IF RawNext(resp) # "return"
       THEN UNCHANGED <<nc, ncResult, session, created, requestNumber,
                       issued>>
       ELSE LET r == readAPIVersion(nc.controllerVersion, resp)
                step == AfterReadAPIVersion(r.err)
                c == [nc.controller EXCEPT !.capabilities = r.capabilities,
                                           !.apiVersion = r.apiVersion]
            IN  CASE step.go = "continue" ->
                       /\ NCContinue
                       /\ UNCHANGED <<requestNumber, issued>>
                  [] step.go = "return" ->
                       /\ NCReturn(NilController, step.err)
                       /\ UNCHANGED <<requestNumber, issued>>
                  [] step.go = "checkCreds" ->
                       /\ requestNumber < RequestCap
                       /\ requestNumber' = nextRequestID(requestNumber)
                       /\ issued' = Append(issued, requestNumber')
                       /\ nc' = NCLocals("whoami", nc.i, requestNumber',
                                         nc.controllerVersion, c)
                       /\ UNCHANGED <<ncResult, session, created>>
    /\ UNCHANGED <<supportedAPIVersions, args, caller, thr>>

\* The transport answers the identity check: NewController returns.
NCWhoamiResponse(resp) ==
    /\ nc.pc = "whoami"
    /\ ncLog' = Append(ncLog,
           LogEntry(nc.i, "whoami", nc.id, resp,
                    Returned(checkCreds(resp), {}, TRUE)))
    /\ IF RawNext(resp) # "return"
       THEN UNCHANGED <<nc, ncResult, session, created>>
       ELSE LET step == AfterCheckCreds(checkCreds(resp))
            IN  CASE step.go = "continue" -> NCContinue
                  [] step.go = "return" /\ step.err # NoErr ->
                       NCReturn(NilController, step.err)
                  [] step.go = "return" /\ step.err = NoErr ->
                       NCReturn(nc.controller, NoErr)
    /\ UNCHANGED <<supportedAPIVersions, args, requestNumber, issued, caller,
                   thr>>

\* The loop ran out of candidates.
NCExhausted ==
    /\ nc.pc = "loop"
    /\ nc.i > Len(supportedAPIVersions)
    /\ NCReturn(NilController, NewUnsupportedVersionError)
    /\ UNCHANGED <<supportedAPIVersions, args, requestNumber, issued, ncLog,
                   caller, thr>>

Next ==
    \/ NCTryCandidate
    \/ \E resp \in VersionResponses : NCVersionResponse(resp)
    \/ \E resp \in PlainResponses : NCWhoamiResponse(resp)
    \/ NCExhausted

Spec == Init /\ [][Next]_vars

\* NewController running on: a step of its own that can be taken is taken.
\* Nothing is required of the transport: no timeout is set, so the answer
\* to a request may never come.
SpecNegotiation ==
    Init /\ [][Next]_vars /\ WF_vars(NCTryCandidate) /\ WF_vars(NCExhausted)

\* ------------------------------------------------------------------------
\* Session operations
\* ------------------------------------------------------------------------
\* NewController is about to run with the version list the package
\* ships, ["2.0"].
InitShipped == Init /\ supportedAPIVersions = <<V20>>

\* The caller enters an operation: the local checks, and for an operation
\* that goes to the server the draw of its request number.  An AddFile
\* given a Reader stops before the draw, to read its content.
Call(op, a) ==
    /\ HasSession
    /\ caller.pc \in {"idle", "returned"}
    /\ session' = Receiver(session, op)
    /\ LET local == LocalCheck(op, a)
           entered == [IdleCaller EXCEPT !.op = op, !.args = a]
       IN  IF op = "Capabilities"
           THEN /\ caller' = [entered EXCEPT !.pc = "returned",
                                             !.caps = Capabilities(session)]
                /\ UNCHANGED <<requestNumber, issued>>
           ELSE IF local # NoErr
           THEN /\ caller' = [entered EXCEPT !.pc = "returned", !.err = local]
                /\ UNCHANGED <<requestNumber, issued>>
           ELSE IF ReadsContent(op, a)
           THEN /\ caller' = [entered EXCEPT !.pc = "reading"]
                /\ UNCHANGED <<requestNumber, issued>>
           ELSE /\ requestNumber < RequestCap
                /\ requestNumber' = nextRequestID(requestNumber)
                /\ issued' = Append(issued, requestNumber')
                /\ caller' = [entered EXCEPT !.pc = "wire",
                                             !.id = requestNumber']
    /\ UNCHANGED <<supportedAPIVersions, args, nc, ncLog, ncResult, thr,
                   created>>

\* AddFile's ioutil.ReadAll returns: with an error AddFile returns it, and
\* otherwise postFile draws the request number.
ReadContent ==
    /\ caller.pc = "reading"
    /\ session' = Receiver(session, caller.op)
    /\ IF ReadAllFails(caller.args.reader, caller.args.length)
       THEN /\ caller' = [caller EXCEPT !.pc = "returned",
                                        !.err = Trace(ReadError)]
            /\ UNCHANGED <<requestNumber, issued>>
       ELSE /\ requestNumber < RequestCap
            /\ requestNumber' = nextRequestID(requestNumber)
            /\ issued' = Append(issued, requestNumber')
            /\ caller' = [caller EXCEPT !.pc = "wire", !.id = requestNumber']
    /\ UNCHANGED <<supportedAPIVersions, args, nc, ncLog, ncResult, thr,
                   created>>

\* The transport answers the caller's request: the primitive decodes, the
\* operation translates a failure, and the call returns.
Respond(resp, decodes) ==
    /\ caller.pc = "wire"
    /\ session' = Receiver(session, caller.op)
    /\ caller' =
            IF RawNext(resp) # "return"
            THEN [caller EXCEPT !.calls = @ + 1]
            ELSE [caller EXCEPT !.pc = "returned", !.calls = @ + 1,
                                !.resp = resp,
                                !.ret = PrimResult(PrimOf(caller.op), resp),
                                !.err = OpErr(caller.op, resp, decodes)]
    /\ UNCHANGED <<supportedAPIVersions, args, requestNumber, issued, nc,
                   ncLog, ncResult, thr, created>>

NextSession ==
    \/ \E op \in Ops : \E a \in ArgsOf(op) : Call(op, a)
    \/ ReadContent
    \/ \E resp \in PlainResponses, decodes \in BOOLEAN : Respond(resp, decodes)

\* NewController on the shipped list, then the operations of the Session it
\* returned.
SpecSession == InitShipped /\ [][Next \/ NextSession]_vars

\* ------------------------------------------------------------------------
\* Request primitives under concurrent invocation
\* ------------------------------------------------------------------------
Prims == {"get", "getQuery", "getOp", "post", "postFile", "delete"}

\* A thread enters a primitive of the s-th Session NewController returned:
\* _getRaw, _postRaw and delete draw the request number before they call
\* the transport.
Invoke(t, prim, s) ==
    /\ s \in 1..created
    /\ thr[t].pc \in {"idle", "returned"}
    /\ requestNumber < RequestCap
    /\ requestNumber' = nextRequestID(requestNumber)
    /\ issued' = Append(issued, requestNumber')
    /\ thr' = [thr EXCEPT ![t] =
            [IdleThread EXCEPT !.pc = "wire", !.prim = prim, !.on = s,
                               !.id = requestNumber']]
    /\ UNCHANGED <<supportedAPIVersions, args, nc, ncLog, ncResult, session,
                   caller, created>>

\* The transport answers a thread's call and the primitive returns.
Answer(t, resp) ==
    /\ thr[t].pc = "wire"
    /\ thr' = [thr EXCEPT ![t] =
            IF RawNext(resp) # "return"
            THEN [@ EXCEPT !.calls = @ + 1]
            ELSE [@ EXCEPT !.pc = "returned", !.calls = @ + 1,
                           !.failed =
                               PrimResult(thr[t].prim, resp).err # NoErr]]
    /\ UNCHANGED <<supportedAPIVersions, args, requestNumber, issued, nc,
                   ncLog, ncResult, session, caller, created>>

NextConcurrent ==
    \/ \E t \in Threads, prim \in Prims, s \in 1..MaxSessions :
           Invoke(t, prim, s)
    \/ \E t \in Threads, resp \in PlainResponses : Answer(t, resp)

\* NewController on the shipped list, then threads invoking primitives on
\* the Session it returned.
SpecConcurrent == InitShipped /\ [][Next \/ NextConcurrent]_vars

\* The caller's operations and the threads' primitives side by side: what
\* the threads draw can come between the steps of an operation.
SpecInterleaved ==
    InitShipped /\ [][Next \/ NextSession \/ NextConcurrent]_vars

\* ------------------------------------------------------------------------
\* Several Sessions in one process
\* ------------------------------------------------------------------------
\* The program, holding the Sessions it has, calls NewController again
\* with the same arguments.
NewControllerAgain ==
    /\ HasSession
    /\ created < MaxSessions
    /\ nc' = NCLocals("loop", 1, 0, VersionNumber(0, 0), NilController)
    /\ ncLog' = <<>>
    /\ ncResult' = [controller |-> NilController, err |-> NoErr]
    /\ UNCHANGED <<supportedAPIVersions, args, requestNumber, issued,
                   session, caller, thr, created>>

\* The counter nextRequestID advances for a primitive of the s-th Session:
\* the package's requestNumber, whichever controller the primitive is
\* invoked on.
CounterOf(s) == requestNumber

\* NewController on the shipped list, as often as MaxSessions allows, and
\* threads invoking primitives on the Sessions it returned.
SpecSessions ==
    InitShipped /\ [][Next \/ NextConcurrent \/ NewControllerAgain]_vars

\* ========================================================================
\* Properties
\* ========================================================================
LogIdx == 1..Len(ncLog)

\* A log entry: the answer to GET version/ did not yield a capability list.
VersionReadFailed(e) ==
    /\ e.call = "version"
    /\ \/ e.resp.err # NoErr
       \/ ~e.resp.body.json
       \/ ~CoerceVersionDoc(e.resp.body.doc)

\* A log entry: GET version/ answered with JSON of the wrong shape.
SchemaMismatch(e) ==
    /\ e.call = "version"
    /\ e.resp.err = NoErr
    /\ e.resp.body.json
    /\ ~CoerceVersionDoc(e.resp.body.doc)

\* A log entry: the identity check answered with JSON.
WhoamiSucceeded(e) ==
    e.call = "whoami" /\ e.resp.err = NoErr /\ e.resp.body.json

\* The version.Number a well-formed candidate string stands for.
NumberOf(v) ==
    IF v = V20 THEN VersionNumber(2, 0)
    ELSE IF v = V10 THEN VersionNumber(1, 0)
    ELSE IF v = VSigned THEN VersionNumber(-1, 0)
    ELSE VersionNumber(-1, -1)

\* The (operation, status, Kind) rows of the error table.
ErrorTable ==
    { <<"AllocateMachine", 409, "NoMatch">>,
      <<"ReleaseMachines", 400, "BadRequest">>,
      <<"ReleaseMachines", 403, "Permission">>,
      <<"ReleaseMachines", 409, "CannotComplete">>,
      <<"CreateDevice", 400, "BadRequest">>,
      <<"GetFile", 404, "NoMatch">>,
      <<"AddFile", 400, "BadRequest">> }

\* The operations of the Controller interface that go to the server.
SessionOps == Ops \ {"Capabilities", "delete"}

\* C1: when the identity check of a candidate fails with status 401,
\* NewController has returned a permission-denied error and no Session, and
\* nothing follows in the log: no client is built and no transport call is
\* made for a later candidate.
C1_UnauthorizedIdentityCheckStops ==
    \A k \in LogIdx :
        (/\ ncLog[k].call = "whoami"
         /\ ncLog[k].resp.err = ServerError(401))
        => /\ nc.pc = "done"
           /\ ncResult.err.kind = "Permission"
           /\ ncResult.controller = NilController
           /\ k = Len(ncLog)
           /\ \A j \in LogIdx : ncLog[j].cand <= ncLog[k].cand

\* A 401 on the identity check of a candidate that is not the last one.
C1_Witness ==
    \E k \in LogIdx :
        /\ ncLog[k].call = "whoami"
        /\ ncLog[k].resp.err = ServerError(401)
        /\ ncLog[k].cand < Len(supportedAPIVersions)
        /\ nc.pc = "done"

\* C2: when building the client of a candidate fails, NewController has
\* returned no Session and an error that is not-valid for an invalid key
\* and unexpected otherwise; the failed construction is the last thing it
\* did (no version fetch, no identity check, no later candidate), and all
\* that precedes it belongs to earlier candidates.
C2_ClientConstructionFailureStops ==
    \A k \in LogIdx :
        (/\ ncLog[k].call = "NewAuthenticatedClient"
         /\ ncLog[k].resp.err # NoErr)
        => /\ nc.pc = "done"
           /\ ncResult.controller = NilController
           /\ ncResult.err.kind =
                  IF ncLog[k].resp.err.kind = "NotValid"
                  THEN "NotValid" ELSE "Unexpected"
           /\ k = Len(ncLog)
           /\ \A j \in 1..(k - 1) : ncLog[j].cand < ncLog[k].cand

\* A construction failure other than an invalid key, with a later
\* candidate left in the list.
C2_Witness ==
    \E k \in LogIdx :
        /\ ncLog[k].call = "NewAuthenticatedClient"
        /\ ncLog[k].resp.err.kind = "URLParse"
        /\ ncLog[k].cand < Len(supportedAPIVersions)
        /\ ncResult.err.kind = "Unexpected"

\* C3: a version document of the wrong shape does not end negotiation: the
\* loop has moved past that candidate, what follows in the log is the
\* construction of the next candidate's client, NewController returns right
\* after it only with unsupported-version (no candidate left) or with the
\* error of an unparsable next version string, and a later candidate whose
\* identity check succeeds gives a Session on that candidate.
C3_SchemaMismatchIsSoft ==
    \A k \in LogIdx :
        SchemaMismatch(ncLog[k])
        => LET c == ncLog[k].cand
           IN  /\ nc.i > c
               /\ k < Len(ncLog) =>
                      /\ ncLog[k + 1].cand = c + 1
                      /\ ncLog[k + 1].call = "NewAuthenticatedClient"
               /\ (nc.pc = "done" /\ k = Len(ncLog)) =>
                      /\ ncResult.err.kind \in {"UnsupportedVersion", "Plain"}
                      /\ ncResult.err.kind = "UnsupportedVersion"
                             <=> c = Len(supportedAPIVersions)
               /\ \A j \in LogIdx :
                      (j > k /\ WhoamiSucceeded(ncLog[j]))
                      => /\ HasSession
                         /\ ncResult.err = NoErr
                         /\ ncResult.controller.client = ncLog[j].cand
                         /\ ncResult.controller.client > c
                         /\ ncResult.controller.apiVersion =
                                NumberOf(supportedAPIVersions[ncLog[j].cand])

\* Candidates ["2.0", "1.0"]: 2.0 answers with a document that lacks the
\* capabilities field, 1.0 is good, and the Session is on 1.0.
C3_Witness ==
    /\ supportedAPIVersions = <<V20, V10>>
    /\ HasSession
    /\ ncResult.controller.client = 2
    /\ ncResult.controller.apiVersion = VersionNumber(1, 0)
    /\ \E k \in LogIdx :
           /\ ncLog[k].cand = 1
           /\ SchemaMismatch(ncLog[k])
           /\ ncLog[k].resp.body.doc.t = "object"
           /\ ~HasField(ncLog[k].resp.body.doc, "capabilities")

\* C4: once NewController has returned, its error is unsupported-version
\* exactly when every candidate of the list was asked for its version
\* document and none gave a usable one; with that error there is no
\* Session, no identity check was made and no client failed to build.
C4_UnsupportedVersionIffAllSoft ==
    nc.pc = "done" =>
        /\ ncResult.err.kind = "UnsupportedVersion"
               <=> \A c \in 1..Len(supportedAPIVersions) :
                       \E k \in LogIdx :
                           ncLog[k].cand = c /\ VersionReadFailed(ncLog[k])
        /\ ncResult.err.kind = "UnsupportedVersion" =>
               /\ ncResult.controller = NilController
               /\ \A k \in LogIdx :
                      /\ ncLog[k].call # "whoami"
                      /\ ncLog[k].call = "NewAuthenticatedClient"
                             => ncLog[k].resp.err = NoErr

\* Two candidates, both tried, both without a usable version document.
C4_Witness ==
    /\ nc.pc = "done"
    /\ ncResult.err.kind = "UnsupportedVersion"
    /\ Len(supportedAPIVersions) = 2
    /\ \E k \in LogIdx : ncLog[k].cand = 2 /\ VersionReadFailed(ncLog[k])

\* C5: the Session NewController returns carries the major.minor of the
\* candidate it was negotiated on and, as its capability set, exactly the
\* strings listed in the capabilities field of that candidate's version
\* document.
C5_SessionReportsVersionAndCapabilities ==
    HasSession =>
        LET c == ncResult.controller
        IN  /\ c.client \in 1..Len(supportedAPIVersions)
            /\ c.apiVersion = NumberOf(supportedAPIVersions[c.client])
            /\ \E k \in LogIdx :
                   ncLog[k].cand = c.client /\ ncLog[k].call = "version"
            /\ \A k \in LogIdx :
                   (ncLog[k].cand = c.client /\ ncLog[k].call = "version")
                   => LET list == GetField(ncLog[k].resp.body.doc,
                                           "capabilities").v
                      IN  c.capabilities =
                              {list[j].v : j \in 1..Len(list)}

\* A Session on the second candidate, "1.0", with two capabilities out of
\* a list that names one of them twice.
C5_Witness ==
    /\ HasSession
    /\ ncResult.controller.client = 2
    /\ ncResult.controller.apiVersion = VersionNumber(1, 0)
    /\ ncResult.controller.capabilities = {"a", "b"}
    /\ \E k \in LogIdx :
           /\ ncLog[k].cand = 2
           /\ ncLog[k].call = "version"
           /\ Len(GetField(ncLog[k].resp.body.doc, "capabilities").v) = 3

\* C6: whatever operations have run on the Session, and however they
\* ended, the controller behind it holds the version and the capability
\* set that NewController returned.
C6_SessionVersionAndCapabilitiesFixed ==
    HasSession =>
        /\ session.apiVersion = ncResult.controller.apiVersion
        /\ session.capabilities = ncResult.controller.capabilities

\* Two operations have gone to the server and the last one, an AddFile,
\* failed; the Session has a non-empty capability set.
C6_Witness ==
    /\ HasSession
    /\ Len(issued) >= 4
    /\ caller.pc = "returned"
    /\ caller.op = "AddFile"
    /\ caller.err.kind = "Unexpected"
    /\ session.capabilities = {"a", "b"}

\* C7: the numbers nextRequestID has returned strictly increase in the
\* order of the increments, so no number is issued twice, and the numbers
\* held by invocations in progress or returned are pairwise distinct and
\* were all issued.
C7_RequestNumbersDistinctAndIncreasing ==
    /\ \A i, j \in 1..Len(issued) : i < j => issued[i] < issued[j]
    /\ \A t, u \in Threads :
           (t # u /\ thr[t].pc # "idle" /\ thr[u].pc # "idle")
           => thr[t].id # thr[u].id
    /\ \A t \in Threads :
           thr[t].pc # "idle" => \E i \in 1..Len(issued) : issued[i] = thr[t].id
    /\ nc.pc \in {"version", "whoami"} =>
           \E i \in 1..Len(issued) : issued[i] = nc.id

\* Two invocations are in progress at once, each holding its number.
C7_Witness ==
    \E t, u \in Threads :
        /\ t # u
        /\ thr[t].pc = "wire"
        /\ thr[u].pc = "wire"
        /\ Len(issued) = 4

\* C8: an invocation of a primitive that waits for the transport has made
\* no call yet and one that has returned has made exactly one, whether the
\* call failed or not; NewController's own get and getOp reach the
\* transport once per candidate.
C8_OneTransportCallPerPrimitive ==
    /\ \A t \in Threads :
           /\ thr[t].pc = "wire" => thr[t].calls = 0
           /\ thr[t].pc = "returned" => thr[t].calls = 1
    /\ \A j, k \in LogIdx :
           (/\ j # k
            /\ ncLog[j].call # "NewAuthenticatedClient"
            /\ ncLog[j].call = ncLog[k].call)
           => ncLog[j].cand # ncLog[k].cand

\* A delete whose transport call failed and a postFile whose call
\* succeeded have both returned.
C8_Witness ==
    \E t, u \in Threads :
        /\ thr[t].pc = "returned" /\ thr[t].prim = "delete" /\ thr[t].failed
        /\ thr[u].pc = "returned" /\ thr[u].prim = "postFile"
        /\ ~thr[u].failed

\* C9: an operation answered with a ServerError of a status the error
\* table lists for it returns the Kind of that row, and an identity check
\* answered with 401 makes NewController return permission-denied.
C9_MappedStatusGivesListedKind ==
    /\ \A row \in ErrorTable :
           (/\ caller.pc = "returned"
            /\ caller.op = row[1]
            /\ caller.resp.err = ServerError(row[2]))
           => caller.err.kind = row[3]
    /\ \A k \in LogIdx :
           (/\ ncLog[k].call = "whoami"
            /\ ncLog[k].resp.err = ServerError(401))
           => ncResult.err.kind = "Permission"

\* ReleaseMachines answered with 409 has returned cannot-complete.
C9_Witness ==
    /\ caller.pc = "returned"
    /\ caller.op = "ReleaseMachines"
    /\ caller.resp.err = ServerError(409)
    /\ caller.err.kind = "CannotComplete"

\* C10: an operation whose transport call failed, with a ServerError of a
\* status the table does not list for it or with a failure that is no
\* ServerError, returns an unexpected error.
C10_UnmappedFailureIsUnexpected ==
    (/\ caller.pc = "returned"
     /\ caller.op \in SessionOps
     /\ caller.resp.err # NoErr
     /\ ~\E row \in ErrorTable :
            caller.op = row[1] /\ caller.resp.err = ServerError(row[2]))
    => caller.err.kind = "Unexpected"

\* AllocateMachine answered with 403 has returned unexpected.
C10_Witness ==
    /\ caller.pc = "returned"
    /\ caller.op = "AllocateMachine"
    /\ caller.resp.err = ServerError(403)
    /\ caller.err.kind = "Unexpected"

\* The calls the operations reject for their arguments alone.
MalformedCall(op, a) ==
    \/ op = "GetFile" /\ a.filename = <<>>
    \/ op = "AddFile" /\ Validate(a) # NoErr
    \/ op = "CreateDevice" /\ a.macs = 0

\* C11: a call rejected for its arguments alone (GetFile with an empty
\* filename, AddFile with arguments that fail Validate, CreateDevice with no
\* MAC address) returns a not-valid error, has made no transport call and
\* has drawn no request number.
C11_LocalFailuresAreNotValid ==
    (caller.pc = "returned" /\ MalformedCall(caller.op, caller.args))
    => /\ caller.err.kind = "NotValid"
       /\ caller.calls = 0
       /\ caller.id = 0

\* AddFile has returned the not-valid error of Validate.
AddFileRejected ==
    /\ caller.op = "AddFile"
    /\ caller.pc = "returned"
    /\ caller.calls = 0
    /\ caller.err.kind = "NotValid"

\* C12: AddFile gets past Validate exactly when the Filename is non-empty
\* and has no slash in it and either Content is set with no Reader and
\* Length zero, or Content is unset with a Reader and a nonzero Length; in
\* every other case it returns a not-valid error.
C12_ValidateAcceptsExactlyOnePayloadForm ==
    caller.op = "AddFile" =>
        LET a == caller.args
            nameOk == /\ a.filename # <<>>
                      /\ \A k \in 1..Len(a.filename) : a.filename[k] # "/"
            contentForm == /\ a.content # "nil"
                           /\ a.reader = "nil"
                           /\ a.length = 0
            readerForm == /\ a.content = "nil"
                          /\ a.reader # "nil"
                          /\ a.length # 0
        IN  AddFileRejected <=> ~(nameOk /\ (contentForm \/ readerForm))

\* A Reader given with Length 0 has been rejected.
C12_Witness ==
    /\ AddFileRejected
    /\ caller.args.filename = <<"f">>
    /\ caller.args.content = "nil"
    /\ caller.args.reader = "reads"
    /\ caller.args.length = 0

\* A log entry: GET version/ was answered with a JSON document.
VersionDocRead(e) ==
    e.call = "version" /\ e.resp.err = NoErr /\ e.resp.body.json

\* A JSON object with a capabilities field that holds a list of strings.
HasCapabilityList(doc) ==
    /\ doc.t = "object"
    /\ \E j \in 1..Len(doc.v) :
           /\ doc.v[j].k = "capabilities"
           /\ doc.v[j].val.t = "array"
           /\ \A m \in 1..Len(doc.v[j].val.v) :
                  doc.v[j].val.v[m].t = "string"

\* C13: readAPIVersion returns without error for a version document exactly
\* when the document is a JSON object whose capabilities field holds a list
\* of strings; for any other document it returns a deserialization error
\* and a nil capability set.
C13_VersionDocAcceptedIffCapabilityList ==
    \A k \in LogIdx :
        VersionDocRead(ncLog[k])
        => LET doc == ncLog[k].resp.body.doc
               ret == ncLog[k].ret
           IN  /\ ret.err = NoErr <=> HasCapabilityList(doc)
               /\ HasCapabilityList(doc) => ~ret.capabilitiesNil
               /\ ~HasCapabilityList(doc) =>
                      /\ ret.err.kind = "Deserialization"
                      /\ ret.capabilitiesNil
                      /\ ret.capabilities = {}

\* A document without the capabilities field and one whose list holds a
\* number have both been refused.
C13_Witness ==
    /\ \E k \in LogIdx :
           /\ VersionDocRead(ncLog[k])
           /\ ncLog[k].resp.body.doc = JObject(<<Field("version", JString("2.0"))>>)
           /\ ncLog[k].ret.err.kind = "Deserialization"
    /\ \E k \in LogIdx :
           /\ VersionDocRead(ncLog[k])
           /\ ncLog[k].resp.body.doc = CapsDoc(<<JString("a"), JNumber("1")>>)
           /\ ncLog[k].ret.err.kind = "Deserialization"

\* A log entry: GET version/ failed in the transport, with any status or
\* with no response at all, or was answered with a body that is not JSON.
VersionFetchFailed(e) ==
    /\ e.call = "version"
    /\ \/ e.resp.err # NoErr
       \/ ~e.resp.body.json

\* C14: a candidate whose version read fails in the transport (any status,
\* 401 and 403 included, or a failure that is no ServerError) or gives a
\* body that is not JSON is passed over: the loop has moved past it, the
\* next thing NewController does is build the next candidate's client, and
\* when it was the last candidate the result is unsupported-version and no
\* Session.
C14_EveryVersionReadFailureIsSoft ==
    \A k \in LogIdx :
        VersionFetchFailed(ncLog[k])
        => LET c == ncLog[k].cand
           IN  /\ ncLog[k].ret.err # NoErr
               /\ nc.i > c
               /\ k < Len(ncLog) =>
                      /\ ncLog[k + 1].cand = c + 1
                      /\ ncLog[k + 1].call = "NewAuthenticatedClient"
               /\ (nc.pc = "done" /\ c = Len(supportedAPIVersions)) =>
                      /\ k = Len(ncLog)
                      /\ ncResult.err.kind = "UnsupportedVersion"
                      /\ ncResult.controller = NilController
               /\ (nc.pc = "done" /\ k = Len(ncLog)) =>
                      ncResult.err.kind \notin {"Permission", "Unexpected"}

\* Two candidates: the first was refused with 401, the second answered
\* with a body that is not JSON, and the result is unsupported-version.
C14_Witness ==
    /\ nc.pc = "done"
    /\ ncResult.err.kind = "UnsupportedVersion"
    /\ \E j, k \in LogIdx :
           /\ ncLog[j].cand = 1
           /\ ncLog[j].call = "version"
           /\ ncLog[j].resp.err = ServerError(401)
           /\ ncLog[k].cand = 2
           /\ ncLog[k].call = "version"
           /\ ncLog[k].resp.err = NoErr
           /\ ~ncLog[k].resp.body.json

\* A log entry: the identity check failed otherwise than with status 401.
WhoamiFailedNot401(e) ==
    /\ e.call = "whoami"
    /\ \/ e.resp.err # NoErr /\ e.resp.err # ServerError(401)
       \/ e.resp.err = NoErr /\ ~e.resp.body.json

\* C15: when the identity check of a candidate fails with a status other
\* than 401, with a failure that is no ServerError or with a body that is
\* not JSON, NewController has returned an unexpected error and no Session,
\* and the failed check is the last thing in the log: no later candidate
\* was tried.
C15_EveryIdentityCheckFailureIsHard ==
    \A k \in LogIdx :
        WhoamiFailedNot401(ncLog[k])
        => /\ nc.pc = "done"
           /\ ncResult.err.kind = "Unexpected"
           /\ ncResult.controller = NilController
           /\ session = NilController
           /\ k = Len(ncLog)
           /\ \A j \in LogIdx : ncLog[j].cand <= ncLog[k].cand

\* The identity check of the first of two candidates was answered with a
\* body that is not JSON.
C15_Witness ==
    \E k \in LogIdx :
        /\ ncLog[k].call = "whoami"
        /\ ncLog[k].resp.err = NoErr
        /\ ~ncLog[k].resp.body.json
        /\ ncLog[k].cand = 1
        /\ Len(supportedAPIVersions) = 2
        /\ nc.pc = "done"
        /\ ncResult.err.kind = "Unexpected"

\* The place of a call within one pass of the loop.
CallRank(call) ==
    CASE call = "NewAuthenticatedClient" -> 1
      [] call = "version" -> 2
      [] call = "whoami" -> 3

\* What NewController has done so far, as one loop over the list would do
\* it: candidates in list order without a gap, within a candidate the
\* client, then at most one version fetch, then at most one identity check;
\* the identity check only right after a version read that returned no
\* error, and once in all; and once returned, either a Session or an
\* error.
NegotiationInOrder ==
    /\ ncLog # <<>> => ncLog[1].cand = 1 /\ ncLog[1].call = "NewAuthenticatedClient"
    /\ \A k \in LogIdx : ncLog[k].cand \in 1..Len(supportedAPIVersions)
    /\ \A k \in 2..Len(ncLog) :
           \/ /\ ncLog[k].cand = ncLog[k - 1].cand
              /\ CallRank(ncLog[k].call) = CallRank(ncLog[k - 1].call) + 1
           \/ /\ ncLog[k].cand = ncLog[k - 1].cand + 1
              /\ ncLog[k].call = "NewAuthenticatedClient"
    /\ \A k \in LogIdx :
           ncLog[k].call = "whoami"
           => /\ k > 1
              /\ ncLog[k - 1].call = "version"
              /\ ncLog[k - 1].cand = ncLog[k].cand
              /\ ncLog[k - 1].ret.err = NoErr
              /\ HasCapabilityList(ncLog[k - 1].resp.body.doc)
    /\ \A j, k \in LogIdx :
           (ncLog[j].call = "whoami" /\ ncLog[k].call = "whoami") => j = k
    /\ nc.pc = "done" =>
           (ncResult.controller # NilController) # (ncResult.err # NoErr)
    /\ nc.pc # "done" =>
           ncResult.controller = NilController /\ ncResult.err = NoErr

\* Once NewController has returned it makes no further call and its
\* result stays.
NothingAfterReturn ==
    [][nc.pc = "done" =>
         UNCHANGED <<nc, ncLog, ncResult, requestNumber, issued>>]_vars

\* C16 as stated: negotiation is one sequential loop (NegotiationInOrder
\* holds throughout), nothing follows its return, and it always returns.
C16_NegotiationSequentialAndTerminates ==
    /\ []NegotiationInOrder
    /\ NothingAfterReturn
    /\ <>(nc.pc = "done")

\* C16 amended: negotiation is one sequential loop, nothing follows its
\* return, and it returns unless the transport leaves the version fetch
\* or the identity check unanswered for ever, in which case NewController
\* stays blocked in that call.
C16_SequentialAndReturnsUnlessTransportHangs ==
    /\ []NegotiationInOrder
    /\ NothingAfterReturn
    /\ \/ <>(nc.pc = "done")
       \/ <>[](nc.pc = "version")
       \/ <>[](nc.pc = "whoami")

\* A Session on the second candidate after the first one's version read
\* failed: three calls for two candidates' clients and fetches, then one
\* identity check.
C16_Witness ==
    /\ HasSession
    /\ Len(ncLog) = 5
    /\ ncLog[2].call = "version"
    /\ ncLog[2].ret.err # NoErr
    /\ ncLog[4].call = "version"
    /\ ncLog[5].call = "whoami"
    /\ ncLog[5].cand = 2

\* The operations built on a primitive that decodes the body.
OpsThatDecode ==
    ListOps \cup {"CreateDevice", "AllocateMachine", "ReleaseMachines",
                  "GetFile"}

\* C17: an operation built on get, getQuery or post whose transport call
\* succeeded with a body that is not JSON got from its primitive a JSON
\* syntax error (no ServerError) and a nil value, and returns an unexpected
\* error wrapping it, whatever statuses the operation maps; the getOp of
\* the identity check gives unexpected in the same way.
C17_UndecodableBodyIsUnexpected ==
    /\ (/\ caller.pc = "returned"
        /\ caller.op \in OpsThatDecode
        /\ caller.calls = 1
        /\ caller.resp.err = NoErr
        /\ ~caller.resp.body.json)
       => /\ caller.ret.err.kind = "JSONSyntax"
          /\ caller.ret.val = JNull
          /\ caller.err.kind = "Unexpected"
          /\ caller.err.cause = "JSONSyntax"
    /\ \A k \in LogIdx :
           (/\ ncLog[k].call = "whoami"
            /\ ncLog[k].resp.err = NoErr
            /\ ~ncLog[k].resp.body.json)
           => /\ ncLog[k].ret.err.kind = "Unexpected"
              /\ ncLog[k].ret.err.cause = "JSONSyntax"

\* ReleaseMachines was answered with success and a body that is not JSON,
\* and has returned unexpected.
C17_Witness ==
    /\ caller.pc = "returned"
    /\ caller.op = "ReleaseMachines"
    /\ caller.calls = 1
    /\ caller.resp.err = NoErr
    /\ ~caller.resp.body.json
    /\ caller.err.kind = "Unexpected"

\* C18: postFile decodes the body as post does, so an AddFile whose
\* transport call succeeded with a body that is not JSON got a decode error
\* from postFile and returns an error.
C18_PostFileDecodesBody ==
    (/\ caller.pc = "returned"
     /\ caller.op = "AddFile"
     /\ caller.calls = 1
     /\ caller.resp.err = NoErr
     /\ ~caller.resp.body.json)
    => /\ caller.ret.err.kind = "JSONSyntax"
       /\ caller.err # NoErr

\* The Kinds an operation derives from what the transport answered.
TransportKinds ==
    {"Permission", "NoMatch", "BadRequest", "CannotComplete", "Unexpected"}

\* The error a decoding primitive starts from: the transport's error, or
\* the syntax error of a body that is not JSON.
OriginOf(resp) == IF resp.err # NoErr THEN resp.err ELSE JSONSyntaxError

\* The classifications an error can carry: the Kinds of the taxonomy, and
\* the deserialization error readAPIVersion wraps a rejected version
\* document in.
Kinds ==
    TransportKinds \cup {"NotValid", "UnsupportedVersion", "Deserialization"}

\* An operation's error of a transport-derived Kind comes out of a
\* transport call and wraps what the primitive returned for it, the
\* transport's error or the decode error.
OperationKeepsCause ==
    (caller.pc = "returned" /\ caller.err.kind \in TransportKinds)
    => /\ caller.calls = 1
       /\ caller.ret.err = OriginOf(caller.resp)
       /\ caller.err.cause = caller.ret.err.kind
       /\ caller.err.status = caller.ret.err.status

\* NewController's error of a transport-derived Kind wraps the error of
\* the last call it made: the transport or decode error of the identity
\* check, or the error of the client constructor.
NewControllerKeepsCause ==
    (nc.pc = "done" /\ ncResult.err.kind \in TransportKinds)
    => /\ ncLog # <<>>
       /\ LET last == ncLog[Len(ncLog)]
              origin == IF last.call = "NewAuthenticatedClient"
                        THEN last.resp.err ELSE OriginOf(last.resp)
          IN  /\ last.call \in {"NewAuthenticatedClient", "whoami"}
              /\ ncResult.err.cause = origin.kind
              /\ ncResult.err.status = origin.status

\* The error NewController returns has the Kind of the error its last call
\* returned, when that one was classified.
KindNotReplaced ==
    (nc.pc = "done" /\ ncResult.err # NoErr /\ ncLog # <<>>)
    => LET last == ncLog[Len(ncLog)]
       IN  last.ret.err.kind \in Kinds
           => ncResult.err.kind = last.ret.err.kind

\* C19: every error of a transport-derived Kind that a Session operation
\* or NewController returns keeps the transport or decode error it comes
\* from as its cause, and the Kind given to an error where it was
\* classified is the Kind the caller gets.
C19_CauseKeptAndKindNotReplaced ==
    /\ OperationKeepsCause
    /\ NewControllerKeepsCause
    /\ KindNotReplaced

\* The number the next primitive invoked on the s-th Session would get.
NextIDOn(s) == nextRequestID(CounterOf(s))

\* C20: the request counter belongs to the Session: when a thread enters a
\* primitive of one Session, the number the next primitive of any other
\* Session would get stays what it was.
C20_CounterOwnedBySession ==
    [][\A t \in Threads :
          (thr[t].pc # "wire" /\ thr'[t].pc = "wire")
          => \A s \in 1..created :
                 s # thr'[t].on => NextIDOn(s)' = NextIDOn(s)]_vars

====
